---- MODULE Spec2Model ----
(***************************************************************************)
(* GasalAligner (gasal_py_nobatch.cpp): the one-pair semi-global alignment *)
(* wrapper around the GASAL2 batch API.  The wrapper's code is modelled    *)
(* step by step; the GASAL2 calls it makes (batch storage, asynchronous    *)
(* execution, the DP engine and its traceback) are not part of the file    *)
(* and are modelled from the design document (sections 4.3 - 4.7).         *)
(***************************************************************************)
EXTENDS Integers, Sequences, FiniteSets, TLC

(***************************************************************************)
(* Bounds of the model.                                                    *)
(***************************************************************************)
\* longest ordinary input text, in characters
MaxLen == 2
\* width in bits of int / uint32_t in the model (32 in the build): scaled
\* down so that a text whose size wraps the narrowing casts can be written
WordBits == 8
\* longest text given to sanitize alone
MaxSanLen == 2

(***************************************************************************)
(* Characters, as byte values.                                             *)
(***************************************************************************)
ChA == 65
ChC == 67
ChG == 71
ChT == 84
ChN == 78
\* 'a' and 'z': the range std::toupper changes in the "C" locale
ChLowA == 97
ChLowZ == 122

Alphabet == {ChA, ChC, ChG, ChT, ChN}

\* std::toupper on an unsigned char value ("C" locale)
ToUpper(c) == IF c >= ChLowA /\ c <= ChLowZ THEN c - (ChLowA - ChA) ELSE c

SanitizeNoUpper(x) ==
  [i \in 1..Len(x) |-> IF x[i] \in Alphabet THEN x[i] ELSE ChN]

\* the sanitize lambda of align
Sanitize(x) ==
  [i \in 1..Len(x) |->
     LET u == ToUpper(x[i]) IN IF u \in Alphabet THEN u ELSE ChN]

(***************************************************************************)
(* Narrowing casts of a std::string size.                                  *)
(***************************************************************************)
WordModulus == 2 ^ WordBits
IntMax == (WordModulus \div 2) - 1

\* (uint32_t)n
ToUint32(n) == n % WordModulus

\* (int)n
ToInt(n) ==
  LET u == n % WordModulus IN IF u > IntMax THEN u - WordModulus ELSE u

PackedBytesRoundedDown(L) ==
  ToInt(ToUint32((ToUint32(ToUint32(L + 3) \div 4) \div 8) * 8))

\* the packed_bytes_rounded lambda of align, in uint32_t arithmetic
PackedBytesRounded(L) ==
  LET bytes == ToUint32(L + 3) \div 4
  IN  ToInt(ToUint32((ToUint32(bytes + 7) \div 8) * 8))

(***************************************************************************)
(* The alignment engine behind gasal_aln_async: the affine-gap recurrence  *)
(* of the design document, section 4.4, with its boundary rows (row 0 is   *)
(* 0, column 0 accumulates the deletion cost) and its optimum search over  *)
(* the last row and the last column.  i indexes the query, j the target.   *)
(***************************************************************************)
Max2(a, b) == IF a >= b THEN a ELSE b

IsMatch(a, b) == a = b /\ a # ChN /\ b # ChN

\* sub(a,b): the match score for equal bases other than N, else the mismatch score
Sub(sc, a, b) == IF IsMatch(a, b) THEN sc.match ELSE sc.mismatch

RECURSIVE Hcell(_, _, _, _, _), Ecell(_, _, _, _, _), Fcell(_, _, _, _, _)
Hcell(q, t, sc, i, j) ==
  IF i = 0 THEN 0
  ELSE IF j = 0 THEN 0 - (sc.gap_open + (i - 1) * sc.gap_extend)
  ELSE Max2(Hcell(q, t, sc, i - 1, j - 1) + Sub(sc, q[i], t[j]),
            Max2(Ecell(q, t, sc, i, j), Fcell(q, t, sc, i, j)))

\* gap in the query (a target base is consumed); defined for i >= 1, j >= 1
Ecell(q, t, sc, i, j) ==
  IF j = 1 THEN Hcell(q, t, sc, i, 0) - sc.gap_open
  ELSE Max2(Hcell(q, t, sc, i, j - 1) - sc.gap_open,
            Ecell(q, t, sc, i, j - 1) - sc.gap_extend)

\* gap in the target (a query base is consumed); defined for i >= 1, j >= 1
Fcell(q, t, sc, i, j) ==
  IF i = 1 THEN Hcell(q, t, sc, 0, j) - sc.gap_open
  ELSE Max2(Hcell(q, t, sc, i - 1, j) - sc.gap_open,
            Fcell(q, t, sc, i - 1, j) - sc.gap_extend)

\* the cells the optimum is sought over: all j at i = m, all i at j = n
EndCells(m, n) ==
  {<<m, j>> : j \in (IF n = 0 THEN {0} ELSE 1..n)}
    \cup {<<i, n>> : i \in (IF m = 0 THEN {0} ELSE 1..m)}

\* the optimum: the greatest H, ties to the smallest j, then the smallest i
BestCell(q, t, sc) ==
  LET cells == EndCells(Len(q), Len(t))
      h(c)  == Hcell(q, t, sc, c[1], c[2])
      better(c, d) ==
        \/ h(c) > h(d)
        \/ h(c) = h(d) /\ c[2] < d[2]
        \/ h(c) = h(d) /\ c[2] = d[2] /\ c[1] < d[1]
  IN  CHOOSE c \in cells : \A d \in cells \ {c} : better(c, d)

(***************************************************************************)
(* Traceback (sections 4.4, 4.5): from the optimal cell back to row 0, one *)
(* primitive operation per step, emitted backwards.  A result is the       *)
(* backward list of operations and the target index where row 0 is met.    *)
(***************************************************************************)
RECURSIVE TraceH(_, _, _, _, _), TraceE(_, _, _, _, _), TraceF(_, _, _, _, _)
TraceH(q, t, sc, i, j) ==
  IF i = 0 THEN [ops |-> <<>>, tb |-> j]
  ELSE IF j = 0
    THEN LET r == TraceH(q, t, sc, i - 1, 0)
         IN  [ops |-> <<"D">> \o r.ops, tb |-> r.tb]
  ELSE IF Hcell(q, t, sc, i, j)
            = Hcell(q, t, sc, i - 1, j - 1) + Sub(sc, q[i], t[j])
    THEN LET r == TraceH(q, t, sc, i - 1, j - 1)
         IN  [ops |-> <<IF IsMatch(q[i], t[j]) THEN "M" ELSE "X">> \o r.ops,
              tb |-> r.tb]
  ELSE IF Hcell(q, t, sc, i, j) = Ecell(q, t, sc, i, j)
    THEN TraceE(q, t, sc, i, j)
  ELSE TraceF(q, t, sc, i, j)

TraceE(q, t, sc, i, j) ==
  LET open == j = 1 \/ Ecell(q, t, sc, i, j)
                         = Hcell(q, t, sc, i, j - 1) - sc.gap_open
      r == IF open THEN TraceH(q, t, sc, i, j - 1)
                   ELSE TraceE(q, t, sc, i, j - 1)
  IN  [ops |-> <<"I">> \o r.ops, tb |-> r.tb]

TraceF(q, t, sc, i, j) ==
  LET open == i = 1 \/ Fcell(q, t, sc, i, j)
                         = Hcell(q, t, sc, i - 1, j) - sc.gap_open
      r == IF open THEN TraceH(q, t, sc, i - 1, j)
                   ELSE TraceF(q, t, sc, i - 1, j)
  IN  [ops |-> <<"D">> \o r.ops, tb |-> r.tb]

Reverse(s) == [k \in 1..Len(s) |-> s[Len(s) + 1 - k]]

\* consecutive identical operations merged into (operation, run_length)
RECURSIVE MergeRuns(_)
MergeRuns(ops) ==
  IF ops = <<>> THEN <<>>
  ELSE LET rest == MergeRuns(Tail(ops))
       IN  IF rest # <<>> /\ rest[1].op = Head(ops)
             THEN <<[op |-> Head(ops), run |-> rest[1].run + 1]>> \o Tail(rest)
             ELSE <<[op |-> Head(ops), run |-> 1]>> \o rest

\* decode(pointers, start_cell, end_cell)
TracebackDecode(q, t, sc, i, j) ==
  MergeRuns(Reverse(TraceH(q, t, sc, i, j).ops))

\* one request's result: score, region boundaries, edit script
EngineAlign(q, t, sc) ==
  LET c == BestCell(q, t, sc)
  IN  [score  |-> Hcell(q, t, sc, c[1], c[2]),
       q_beg  |-> 0,
       q_end  |-> c[1],
       s_beg  |-> TraceH(q, t, sc, c[1], c[2]).tb,
       s_end  |-> c[2],
       script |-> TracebackDecode(q, t, sc, c[1], c[2])]

\* the engine's byte for one run: the operation tag in the low two bits
OpCode(op) == CASE op = "M" -> 0 [] op = "X" -> 1 [] op = "D" -> 2 [] op = "I" -> 3

CigarByte(e) == (e.run % 64) * 4 + OpCode(e.op)

EncodeCigar(script) == [k \in 1..Len(script) |-> CigarByte(script[k])]

(***************************************************************************)
(* Batch storage (section 4.3): one slot (max_n_alns = 1), the shared      *)
(* query / target buffers, the per-slot offset and length tables and the   *)
(* result buffers.  Arrays are sequences; C index k is element k + 1.      *)
(***************************************************************************)
\* buf with data copied to C offset off; bytes outside the copy are kept
WriteAt(buf, off, data) ==
  [k \in 1..Max2(Len(buf), off + Len(data)) |->
     IF k > off /\ k <= off + Len(data) THEN data[k - off]
     ELSE IF k <= Len(buf) THEN buf[k] ELSE ChN]

\* the bytes of buf at C offsets off .. off + len - 1
ReadAt(buf, off, len) == [k \in 1..len |-> buf[off + k]]

\* gasal_init_gpu_storage_v(1) and gasal_init_streams(.., 1, ..)
InitStorage ==
  [current_n_alns             |-> 0,
   host_unpacked_query_batch  |-> <<>>,
   host_unpacked_target_batch |-> <<>>,
   host_query_batch_offsets   |-> <<0>>,
   host_target_batch_offsets  |-> <<0>>,
   host_query_batch_lens      |-> <<0>>,
   host_target_batch_lens     |-> <<0>>,
   host_query_op              |-> <<0>>,
   host_target_op             |-> <<0>>,
   host_res |-> [aln_score          |-> <<0>>,
                 query_batch_start  |-> <<0>>,
                 query_batch_end    |-> <<0>>,
                 target_batch_start |-> <<0>>,
                 target_batch_end   |-> <<0>>,
                 n_cigar_ops        |-> <<0>>,
                 cigar              |-> <<>>]]

\* gasal_host_batch_fill: the storage after copying size bytes of data to
\* offset idx of the SRC side's buffer
HostBatchFill(st, idx, data, size, SRC) ==
  IF SRC = "QUERY"
    THEN [st EXCEPT !.host_unpacked_query_batch =
                       WriteAt(@, idx, SubSeq(data, 1, size))]
    ELSE [st EXCEPT !.host_unpacked_target_batch =
                       WriteAt(@, idx, SubSeq(data, 1, size))]

\* gasal_host_batch_fill: the value returned, the offset recorded for the
\* request (section 4.3: the offset the bytes were copied to)
HostBatchFillOffset(st, idx, data, size, SRC) == idx

\* gasal_op_fill(stor, 0, idx, SRC): the slot's operand is used as given
OpFill(st, op, idx, SRC) ==
  IF SRC = "QUERY" THEN [st EXCEPT !.host_query_op[idx + 1] = op]
                   ELSE [st EXCEPT !.host_target_op[idx + 1] = op]

\* the engine's pass over slot 0 of a submitted batch: the result buffers
\* after completion; the slot's cigar bytes start at its query offset
EngineRun(st, sc) ==
  LET qo == st.host_query_batch_offsets[1]
      q  == ReadAt(st.host_unpacked_query_batch, qo,
                   st.host_query_batch_lens[1])
      t  == ReadAt(st.host_unpacked_target_batch,
                   st.host_target_batch_offsets[1],
                   st.host_target_batch_lens[1])
      r  == EngineAlign(q, t, sc)
  IN  [st EXCEPT !.host_res =
         [aln_score          |-> <<r.score>>,
          query_batch_start  |-> <<r.q_beg>>,
          query_batch_end    |-> <<r.q_end>>,
          target_batch_start |-> <<r.s_beg>>,
          target_batch_end   |-> <<r.s_end>>,
          n_cigar_ops        |-> <<Len(r.script)>>,
          cigar              |-> WriteAt(st.host_res.cigar, qo,
                                         EncodeCigar(r.script))]]

\* gasal_is_aln_async_done: -1 while the batch is Pending, 0 once Done
IsAlnAsyncDone(h) == IF h = "pending" THEN 0 - 1 ELSE 0

(***************************************************************************)
(* GasalAligner::align, by parts.                                          *)
(***************************************************************************)
\* the length guard, line 67
LengthExceeded(q, s, maxq, maxt) ==
  ToInt(Len(q)) > maxq \/ ToInt(Len(s)) > maxt

ResetBatchKeepsCount(st) == st

\* lines 70-71
ResetBatch(st) == [st EXCEPT !.current_n_alns = 0]

\* lines 74-83: fill slot 0, record offsets and lengths, set the operands
FillBatch(st, q, s) ==
  LET q_off == HostBatchFillOffset(st, 0, q, ToUint32(Len(q)), "QUERY")
      st1   == HostBatchFill(st, 0, q, ToUint32(Len(q)), "QUERY")
      t_off == HostBatchFillOffset(st1, 0, s, ToUint32(Len(s)), "TARGET")
      st2   == HostBatchFill(st1, 0, s, ToUint32(Len(s)), "TARGET")
      st3   == [st2 EXCEPT !.host_query_batch_offsets[1]  = q_off,
                           !.host_target_batch_offsets[1] = t_off,
                           !.host_query_batch_lens[1]  = ToUint32(Len(q)),
                           !.host_target_batch_lens[1] = ToUint32(Len(s)),
                           !.current_n_alns = 1]
  IN  OpFill(OpFill(st3, 0, 0, "QUERY"), 0, 0, "TARGET")

\* lines 91-94: the arguments of gasal_aln_async
SubmitArgs(st) ==
  [q_bytes |-> PackedBytesRounded(st.host_query_batch_lens[1]),
   t_bytes |-> PackedBytesRounded(st.host_target_batch_lens[1]),
   n_alns  |-> 1]

\* the PAlign fields all but the edit script
ResultFields(st, qe, se, cig) ==
  [kind  |-> "PAlign",
   score |-> st.host_res.aln_score[1],
   q_beg |-> st.host_res.query_batch_start[1],
   q_end |-> qe,
   s_beg |-> st.host_res.target_batch_start[1],
   s_end |-> se,
   cigar |-> cig]

ExtractResultShortCigar(st) ==
  ResultFields(st, st.host_res.query_batch_end[1], st.host_res.target_batch_end[1],
               ReadAt(st.host_res.cigar, st.host_query_batch_offsets[1],
                      Max2(st.host_res.n_cigar_ops[1] - 1, 0)))

ExtractResultSwappedEnds(st) ==
  ResultFields(st, st.host_res.target_batch_end[1], st.host_res.query_batch_end[1],
               ReadAt(st.host_res.cigar, st.host_query_batch_offsets[1],
                      st.host_res.n_cigar_ops[1]))

ExtractResultWholeCigar(st) ==
  ResultFields(st, st.host_res.query_batch_end[1], st.host_res.target_batch_end[1],
               ReadAt(st.host_res.cigar, st.host_query_batch_offsets[1],
                      Len(st.host_res.cigar) - st.host_query_batch_offsets[1]))

RECURSIVE UnpackBytes(_)
UnpackBytes(bytes) ==
  IF bytes = <<>> THEN <<>>
  ELSE <<bytes[1] % 4, bytes[1] \div 4>> \o UnpackBytes(Tail(bytes))

ExtractResultUnpacked(st) ==
  ResultFields(st, st.host_res.query_batch_end[1], st.host_res.target_batch_end[1],
               UnpackBytes(ReadAt(st.host_res.cigar, st.host_query_batch_offsets[1],
                                  st.host_res.n_cigar_ops[1])))

\* lines 97-111: the PAlign built from the result buffers
ExtractResult(st) ==
  LET R   == st.host_res
      idx == 0
      c0  == st.host_query_batch_offsets[idx + 1]
      n   == R.n_cigar_ops[idx + 1]
  IN  [kind  |-> "PAlign",
       score |-> R.aln_score[idx + 1],
       q_beg |-> R.query_batch_start[idx + 1],
       q_end |-> R.query_batch_end[idx + 1],
       s_beg |-> R.target_batch_start[idx + 1],
       s_end |-> R.target_batch_end[idx + 1],
       cigar |-> ReadAt(R.cigar, c0, n)]

(***************************************************************************)
(* The constructor and the destructor, statement by statement.  A resource *)
(* is "none" before it is allocated, "live" while allocated, "released"    *)
(* after; log lists the allocations and releases in the order they ran;    *)
(* misuse is set by a statement that uses a resource that is not live,     *)
(* allocates one that is live or releases one that is not.                 *)
(***************************************************************************)
Unborn ==
  [args |-> "none", storage |-> "none", streams |-> "none", log |-> <<>>,
   misuse |-> FALSE]

\* lines 35-45, in order
CtorStatements ==
  <<"gasal_copy_subst_scores", "new Parameters", "gasal_init_gpu_storage_v",
    "gasal_init_streams">>

DtorStatementsArgsFirst ==
  <<"delete args_", "gasal_destroy_streams", "gasal_destroy_gpu_storage_v">>

\* lines 49-51, in order
DtorStatements ==
  <<"gasal_destroy_streams", "gasal_destroy_gpu_storage_v", "delete args_">>

\* the resources after one statement of the constructor or destructor
Run(l, stmt) ==
  CASE stmt = "gasal_copy_subst_scores" -> l
    [] stmt = "new Parameters" ->
         [l EXCEPT !.args = "live", !.log = Append(@, stmt),
                   !.misuse = @ \/ l.args = "live"]
    [] stmt = "gasal_init_gpu_storage_v" ->
         [l EXCEPT !.storage = "live", !.log = Append(@, stmt),
                   !.misuse = @ \/ l.storage = "live"]
    [] stmt = "gasal_init_streams" ->
         [l EXCEPT !.streams = "live", !.log = Append(@, stmt),
                   !.misuse = @ \/ l.streams = "live" \/ l.storage # "live"
                                \/ l.args # "live"]
    [] stmt = "gasal_destroy_streams" ->
         [l EXCEPT !.streams = "released", !.log = Append(@, stmt),
                   !.misuse = @ \/ l.streams # "live" \/ l.storage # "live"
                                \/ l.args # "live"]
    [] stmt = "gasal_destroy_gpu_storage_v" ->
         [l EXCEPT !.storage = "released", !.log = Append(@, stmt),
                   !.misuse = @ \/ l.storage # "live"]
    [] stmt = "delete args_" ->
         [l EXCEPT !.args = "released", !.log = Append(@, stmt),
                   !.misuse = @ \/ l.args # "live"]

RECURSIVE RunAll(_, _)
RunAll(l, stmts) ==
  IF stmts = <<>> THEN l ELSE RunAll(Run(l, Head(stmts)), Tail(stmts))

\* the resources of a constructed aligner
Constructed == RunAll(Unborn, CtorStatements)

(***************************************************************************)
(* State.                                                                  *)
(***************************************************************************)
VARIABLES
  subst_,     \* the scores given to the constructor
  max_q_,     \* the limits given to the constructor
  max_t_,
  stor,       \* stor_v_.a[0]
  handle,     \* the batch's execution handle: "free", "pending", "done"
  launch,     \* the arguments of the last gasal_aln_async
  inflight,   \* submissions not yet completed
  pc,         \* where align is: "idle" between calls
  q_in,       \* the arguments of the current (or last) call
  s_in,
  ret,        \* what the last call returned or threw
  device_scores, \* the scores last given to gasal_copy_subst_scores
  life,       \* args_, the storage vector and the streams: what is allocated
  probe       \* a pure function under test: its input and output

vars == <<subst_, max_q_, max_t_, stor, handle, launch, inflight, pc,
          q_in, s_in, ret, device_scores, life, probe>>

\* align's locals q and s: the sanitized arguments
q == Sanitize(q_in)
s == Sanitize(s_in)

config == <<subst_, max_q_, max_t_>>

\* what align neither reads through its members nor changes
shared == <<device_scores, life>>

(***************************************************************************)
(* Inputs.                                                                 *)
(***************************************************************************)
\* 'c', a lower-case base
ChLowC == ChC + (ChLowA - ChA)

InBytes == {ChA, ChLowC}

ShortTexts == UNION {[1..n -> InBytes] : n \in 0..MaxLen}

\* a text whose size does not fit the narrowed types: one character more
\* than the word's modulus
LongText == [k \in 1..(WordModulus + 1) |-> ChA]

Texts == ShortTexts \cup {LongText}

\* n characters 'A'
RunOfA(n) == [k \in 1..n |-> ChA]

Limits == {<<MaxLen - 1, MaxLen - 1>>, <<MaxLen, MaxLen>>}

Scorings ==
  {[match |-> 2, mismatch |-> 0 - 1, gap_open |-> 2, gap_extend |-> 1],
   [match |-> 1, mismatch |-> 0, gap_open |-> 0, gap_extend |-> 0],
   [match |-> 2, mismatch |-> 0 - 1, gap_open |-> 0 - 2, gap_extend |-> 0 - 1]}

NoProbe == [fn |-> "none"]
NoLaunch == [q_bytes |-> 0, t_bytes |-> 0, n_alns |-> 0]

\* the state after GasalAligner's constructor
Init ==
  /\ subst_ \in Scorings
  /\ \E lim \in Limits : max_q_ = lim[1] /\ max_t_ = lim[2]
  /\ stor = InitStorage
  /\ handle = "free"
  /\ launch = NoLaunch
  /\ inflight = 0
  /\ pc = "idle"
  /\ q_in = <<>> /\ s_in = <<>>
  /\ ret = [kind |-> "none"]
  /\ device_scores = subst_
  /\ life = Constructed
  /\ probe = NoProbe

(***************************************************************************)
(* align, step by step.                                                    *)
(***************************************************************************)
\* lines 54-68: the call, sanitize, the length guard
AlignCallOf(T) ==
  /\ pc = "idle"
  /\ \E x \in T, y \in T :
       /\ q_in' = x /\ s_in' = y
       /\ IF LengthExceeded(Sanitize(x), Sanitize(y), max_q_, max_t_)
            THEN /\ ret' = [kind |-> "error", what |-> "LengthExceeded"]
                 /\ pc' = "idle"
            ELSE /\ ret' = [kind |-> "none"]
                 /\ pc' = "reset"
  /\ UNCHANGED <<config, shared, stor, handle, launch, inflight, probe>>

AlignCall == AlignCallOf(Texts)

\* lines 70-71
AlignReset ==
  /\ pc = "reset"
  /\ stor' = ResetBatch(stor)
  /\ pc' = "fill"
  /\ UNCHANGED <<config, shared, handle, launch, inflight, q_in, s_in, ret, probe>>

\* lines 74-83
AlignFill ==
  /\ pc = "fill"
  /\ stor' = FillBatch(stor, q, s)
  /\ pc' = "submit"
  /\ UNCHANGED <<config, shared, handle, launch, inflight, q_in, s_in, ret, probe>>

\* lines 86-94: gasal_aln_async
AlignSubmit ==
  /\ pc = "submit"
  /\ launch' = SubmitArgs(stor)
  /\ handle' = "pending"
  /\ inflight' = inflight + 1
  /\ pc' = "poll"
  /\ UNCHANGED <<config, shared, stor, q_in, s_in, ret, probe>>

\* the backend completes the submitted batch: the results become visible
\* and the handle turns Done.  gasal_aln_async is given the storage and
\* args_ only (line 94): the engine scores with what gasal_copy_subst_scores
\* was last given
BackendComplete ==
  /\ handle = "pending"
  /\ stor' = EngineRun(stor, device_scores)
  /\ handle' = "done"
  /\ inflight' = inflight - 1
  /\ UNCHANGED <<config, shared, launch, pc, q_in, s_in, ret, probe>>

AlignPollOnce ==
  /\ pc = "poll"
  /\ pc' = "extract"
  /\ UNCHANGED <<config, shared, stor, handle, launch, inflight, q_in, s_in, ret,
                 probe>>

AlignPollResets ==
  /\ pc = "poll"
  /\ \/ /\ IsAlnAsyncDone(handle) = 0 - 1
        /\ pc' = "poll"
        /\ stor' = [stor EXCEPT !.current_n_alns = 0]
     \/ /\ IsAlnAsyncDone(handle) # 0 - 1
        /\ pc' = "extract"
        /\ stor' = stor
  /\ UNCHANGED <<config, shared, handle, launch, inflight, q_in, s_in, ret, probe>>

AlignPollSpins ==
  /\ pc = "poll"
  /\ \/ /\ IsAlnAsyncDone(handle) = 0 - 1
        /\ pc' = "poll"
     \/ /\ IsAlnAsyncDone(handle) # 0 - 1
        /\ pc' = "poll"
  /\ UNCHANGED <<config, shared, stor, handle, launch, inflight, q_in, s_in, ret,
                 probe>>

\* line 95: one evaluation of the loop condition
AlignPoll ==
  /\ pc = "poll"
  /\ \/ /\ IsAlnAsyncDone(handle) = 0 - 1
        /\ pc' = "poll"
     \/ /\ IsAlnAsyncDone(handle) # 0 - 1
        /\ pc' = "extract"
  /\ UNCHANGED <<config, shared, stor, handle, launch, inflight, q_in, s_in, ret,
                 probe>>

\* lines 97-111
AlignExtract ==
  /\ pc = "extract"
  /\ ret' = ExtractResult(stor)
  /\ pc' = "idle"
  /\ UNCHANGED <<config, shared, stor, handle, launch, inflight, q_in, s_in, probe>>

Next ==
  \/ AlignCall
  \/ AlignReset
  \/ AlignFill
  \/ AlignSubmit
  \/ BackendComplete
  \/ AlignPoll
  \/ AlignExtract

Spec == Init /\ [][Next]_vars

\* the statements of align after the guard: the calling thread runs them one
\* after another and is never suspended for good
AlignBody ==
  \/ AlignReset
  \/ AlignFill
  \/ AlignSubmit
  \/ AlignPoll
  \/ AlignExtract

\* the backend completes every batch submitted to it (section 4.6: once
\* submitted, a batch runs to completion).  BackendComplete is enabled
\* exactly when the handle is Pending and turns it Done, so this is weak
\* fairness of BackendComplete, stated on the handle.
BackendCompletes == (handle = "pending") ~> (handle = "done")

\* the thread in align keeps running, and the backend completes its batches
Fairness == WF_vars(AlignBody) /\ BackendCompletes

\* calls with texts of every accepted length and with the over-long text
WaitTexts == {RunOfA(n) : n \in 0..MaxLen} \cup {LongText}

AlignCallWait == AlignCallOf(WaitTexts)

NextWait ==
  \/ AlignCallWait
  \/ AlignBody
  \/ BackendComplete

SpecFair == Init /\ [][NextWait]_vars /\ Fairness

(***************************************************************************)
(* Several aligners in one process.  The constructor of another aligner     *)
(* (lines 28-35) hands its scores to gasal_copy_subst_scores, which takes   *)
(* the scores alone: no storage, no aligner.  The other aligner's own       *)
(* members are its own; what it shares with this one is device_scores.      *)
(* align holds the interpreter lock, so another constructor runs between    *)
(* calls.                                                                   *)
(***************************************************************************)
ConstructOther ==
  /\ pc = "idle"
  /\ \E sc \in Scorings : device_scores' = sc
  /\ UNCHANGED <<config, life, stor, handle, launch, inflight, pc, q_in, s_in, ret,
                 probe>>

NextShared ==
  \/ AlignCallWait
  \/ AlignBody
  \/ BackendComplete
  \/ ConstructOther

SpecShared == Init /\ [][NextShared]_vars

(***************************************************************************)
(* One aligner from before its construction to after its destruction.      *)
(* The destructor runs when no call is running (the object is destroyed    *)
(* when its last reference goes away).                                     *)
(***************************************************************************)
\* stor_v_{} and the scores of the library before any constructor ran
NoStorage == [current_n_alns |-> 0]
NoScores == [match |-> 0, mismatch |-> 0, gap_open |-> 0, gap_extend |-> 0]

\* where the constructor and the destructor are before each statement, and
\* after the last
CtorPc == <<"ctor1", "ctor2", "ctor3", "ctor4", "idle">>
DtorPc == <<"idle", "dtor2", "dtor3", "dead">>

\* the constructor's arguments are bound (line 30); its body has not run
InitLife ==
  /\ subst_ \in Scorings
  /\ \E lim \in Limits : max_q_ = lim[1] /\ max_t_ = lim[2]
  /\ stor = NoStorage
  /\ handle = "free"
  /\ launch = NoLaunch
  /\ inflight = 0
  /\ pc = "ctor1"
  /\ q_in = <<>> /\ s_in = <<>>
  /\ ret = [kind |-> "none"]
  /\ device_scores = NoScores
  /\ life = Unborn
  /\ probe = NoProbe

\* lines 35-45: one statement of the constructor
CtorStep ==
  \E k \in 1..Len(CtorStatements) :
    /\ pc = CtorPc[k]
    /\ pc' = CtorPc[k + 1]
    /\ life' = Run(life, CtorStatements[k])
    /\ device_scores' = IF CtorStatements[k] = "gasal_copy_subst_scores"
                          THEN subst_ ELSE device_scores
    /\ stor' = IF CtorStatements[k] = "gasal_init_streams"
                 THEN InitStorage ELSE stor
    /\ UNCHANGED <<config, handle, launch, inflight, q_in, s_in, ret, probe>>

\* lines 49-51: one statement of the destructor
DtorStep ==
  \E k \in 1..Len(DtorStatements) :
    /\ pc = DtorPc[k]
    /\ pc' = DtorPc[k + 1]
    /\ life' = Run(life, DtorStatements[k])
    /\ stor' = IF DtorStatements[k] = "gasal_destroy_gpu_storage_v"
                 THEN NoStorage ELSE stor
    /\ UNCHANGED <<config, device_scores, handle, launch, inflight, q_in,
                   s_in, ret, probe>>

NextLife ==
  \/ CtorStep
  \/ AlignCallWait
  \/ AlignBody
  \/ BackendComplete
  \/ DtorStep

SpecLife == InitLife /\ [][NextLife]_vars

(***************************************************************************)
(* The submission path alone, for every length the guard accepts: texts of *)
(* 0 .. IntMax characters under limits of IntMax.                          *)
(***************************************************************************)
InitLengths ==
  /\ subst_ = [match |-> 2, mismatch |-> 0 - 1, gap_open |-> 2, gap_extend |-> 1]
  /\ max_q_ = IntMax /\ max_t_ = IntMax
  /\ stor = InitStorage
  /\ handle = "free"
  /\ launch = NoLaunch
  /\ inflight = 0
  /\ pc = "idle"
  /\ q_in = <<>> /\ s_in = <<>>
  /\ ret = [kind |-> "none"]
  /\ device_scores = subst_
  /\ life = Constructed
  /\ probe = NoProbe

LengthTexts == {RunOfA(n) : n \in 0..IntMax}

\* a call, followed up to gasal_aln_async
AlignCallLengths == AlignCallOf(LengthTexts)

NextLengths ==
  \/ AlignCallLengths
  \/ AlignReset
  \/ AlignFill
  \/ AlignSubmit

SpecLengths == InitLengths /\ [][NextLengths]_vars

(***************************************************************************)
(* sanitize alone, on texts of arbitrary bytes.                            *)
(***************************************************************************)
SanBytes ==
  {0, ChA - 1, ChA, ChG, ChLowA - 1, ChLowA, ChLowC, ChLowA + (ChT - ChA),
   ChLowA + (ChN - ChA), ChLowZ, ChLowZ + 1, 255}

SanTexts == UNION {[1..n -> SanBytes] : n \in 0..MaxSanLen}

InitSanitize ==
  /\ subst_ = [match |-> 2, mismatch |-> 0 - 1, gap_open |-> 2, gap_extend |-> 1]
  /\ max_q_ = MaxLen /\ max_t_ = MaxLen
  /\ stor = InitStorage
  /\ handle = "free"
  /\ launch = NoLaunch
  /\ inflight = 0
  /\ pc = "idle"
  /\ q_in = <<>> /\ s_in = <<>>
  /\ ret = [kind |-> "none"]
  /\ device_scores = subst_
  /\ life = Constructed
  /\ \E x \in SanTexts :
       probe = [fn |-> "sanitize", stage |-> "in", x |-> x, y |-> <<>>, yy |-> <<>>]

\* y = sanitize(x)
SanitizeApply ==
  /\ probe.fn = "sanitize" /\ probe.stage = "in"
  /\ probe' = [probe EXCEPT !.stage = "out", !.y = Sanitize(probe.x)]
  /\ UNCHANGED <<config, shared, stor, handle, launch, inflight, pc, q_in, s_in, ret>>

\* yy = sanitize(y)
SanitizeAgain ==
  /\ probe.fn = "sanitize" /\ probe.stage = "out"
  /\ probe' = [probe EXCEPT !.stage = "twice", !.yy = Sanitize(probe.y)]
  /\ UNCHANGED <<config, shared, stor, handle, launch, inflight, pc, q_in, s_in, ret>>

NextSanitize ==
  \/ SanitizeApply
  \/ SanitizeAgain

SpecSanitize == InitSanitize /\ [][NextSanitize]_vars

(***************************************************************************)
(* Properties.                                                             *)
(***************************************************************************)
Returned == pc = "idle" /\ ret.kind = "PAlign"

\* the host-side contents of the batch: slot count, tables, sequence buffers
BatchInputs(st) ==
  <<st.current_n_alns, st.host_query_batch_offsets, st.host_target_batch_offsets,
    st.host_query_batch_lens, st.host_target_batch_lens,
    st.host_unpacked_query_batch, st.host_unpacked_target_batch,
    st.host_query_op, st.host_target_op>>

\* C1: a call whose query is longer than max_q or whose target is longer
\* than max_t fails with LengthExceeded, and that call fills nothing,
\* submits nothing, polls nothing and leaves the batch as it was.
C1_LengthGuard ==
  [][(pc = "idle" /\ (Len(q_in') > max_q_ \/ Len(s_in') > max_t_))
       => /\ pc' = "idle"
          /\ ret' = [kind |-> "error", what |-> "LengthExceeded"]
          /\ stor' = stor /\ handle' = handle /\ launch' = launch]_vars

\* the upper-case base a byte stands for, if any
BaseOf(c) ==
  IF \E b \in Alphabet : c = b \/ c = b + (ChLowA - ChA)
    THEN CHOOSE b \in Alphabet : c = b \/ c = b + (ChLowA - ChA)
    ELSE ChN

\* C2: sanitize keeps the length; position i holds the upper-cased input
\* character when that is one of A, C, G, T, N and N otherwise; sanitizing
\* sanitized text changes nothing.
C2_SanitizeTotal ==
  /\ probe.fn = "sanitize" /\ probe.stage # "in" =>
       /\ Len(probe.y) = Len(probe.x)
       /\ \A i \in 1..Len(probe.x) : probe.y[i] = BaseOf(probe.x[i])
  /\ probe.fn = "sanitize" /\ probe.stage = "twice" => probe.yy = probe.y

C2_Witness ==
  /\ probe.fn = "sanitize" /\ probe.stage = "twice"
  /\ Len(probe.x) = MaxSanLen
  /\ probe.x[1] = ChLowC /\ probe.y[1] = ChC
  /\ probe.x[2] = ChLowZ /\ probe.y[2] = ChN

\* ceil(L / 4), as the least k with 4k >= L
CeilQuarter(L) == CHOOSE k \in 0..L : 4 * k >= L /\ (k = 0 \/ 4 * (k - 1) < L)

IsRoundedPacked(b, L) ==
  /\ b % 8 = 0
  /\ b >= CeilQuarter(L)
  /\ b < CeilQuarter(L) + 8
  /\ (L = 0 => b = 0)

\* C3: for every accepted length L the byte count given to gasal_aln_async
\* for that side is a multiple of 8, at least ceil(L/4), less than
\* ceil(L/4) + 8, and 0 when L = 0.
C3_PackedBytes ==
  (pc = "poll" /\ Len(q_in) <= max_q_ /\ Len(s_in) <= max_t_) =>
     /\ IsRoundedPacked(launch.q_bytes, Len(q_in))
     /\ IsRoundedPacked(launch.t_bytes, Len(s_in))

C3_Witness ==
  /\ pc = "poll"
  /\ Len(q_in) = 33 /\ launch.q_bytes = 16
  /\ Len(s_in) = 0 /\ launch.t_bytes = 0

\* C4: the result buffers are read only once the submitted batch is Done,
\* and what is returned is what the buffers hold at Done.
C4_ReadAfterDone ==
  /\ pc = "extract" => handle = "done"
  /\ Returned => handle = "done" /\ ret = ExtractResult(stor)

C4_Witness == pc = "extract" /\ handle = "done" /\ launch.n_alns = 1

\* a call on an aligner that has never been used
AlignFresh(x, y, sc) ==
  ExtractResult(EngineRun(FillBatch(ResetBatch(InitStorage),
                                    Sanitize(x), Sanitize(y)), sc))

\* C5: the result of a call depends only on its (query, target) and the
\* scores: it is the result the same call gives on a fresh aligner,
\* whatever calls ran before it.
C5_Determinism == Returned => ret = AlignFresh(q_in, s_in, subst_)

\* a result returned while the buffers still hold more than this call wrote
C5_Witness ==
  /\ Returned
  /\ Len(stor.host_unpacked_query_batch) > stor.host_query_batch_lens[1]
  /\ Len(stor.host_unpacked_target_batch) > stor.host_target_batch_lens[1]
  /\ Len(stor.host_res.cigar) > stor.host_res.n_cigar_ops[1]

Bases == {ChA, ChC, ChG, ChT}

SelfResult(L) ==
  /\ ret.score = subst_.match * L
  /\ ret.cigar = <<CigarByte([op |-> "M", run |-> L])>>

RECURSIVE FlatRuns(_)
FlatRuns(script) ==
  IF script = <<>> THEN <<>>
  ELSE <<OpCode(script[1].op), script[1].run>> \o FlatRuns(Tail(script))

\* the edit script of the call's alignment
ScriptOf(x, y, sc) == EngineAlign(Sanitize(x), Sanitize(y), sc).script

DecodeCigar(bytes) ==
  [k \in 1..Len(bytes) |-> [code |-> bytes[k] % 4, run |-> bytes[k] \div 4]]

RECURSIVE SumRuns(_, _)
SumRuns(runs, codes) ==
  IF runs = <<>> THEN 0
  ELSE (IF runs[1].code \in codes THEN runs[1].run ELSE 0)
         + SumRuns(Tail(runs), codes)

QueryCodes == {OpCode("M"), OpCode("X"), OpCode("D")}
TargetCodes == {OpCode("M"), OpCode("X"), OpCode("I")}

C9_NoWriteWhilePending ==
  [][(handle = "pending" \/ pc \in {"poll", "extract"})
       => BatchInputs(stor') = BatchInputs(stor)]_vars

C9_Witness == handle = "pending" /\ pc = "poll" /\ stor.current_n_alns = 1

\* C10: at most one slot and one in-flight handle; a call starts with no
\* handle Pending, fills only after the reset, and a call that returns a
\* result leaves the slot count at 1 with the handle Done.
C10_BatchReuse ==
  /\ stor.current_n_alns <= 1
  /\ inflight <= 1
  /\ (handle = "pending") = (inflight = 1)
  /\ pc \in {"idle", "reset", "fill", "submit"} => handle # "pending"
  /\ pc = "fill" => stor.current_n_alns = 0
  /\ Returned => stor.current_n_alns = 1 /\ handle = "done"

\* a second call about to fill the batch the first call used
C10_Witness == pc = "fill" /\ handle = "done" /\ stor.host_res.n_cigar_ops[1] > 0

\* C11: under a backend that completes every submitted batch, every call
\* that passes the length guard returns a result, and the poll loop is left
\* only with the handle Done.
C11_WaitTerminates ==
  /\ (pc = "reset") ~> Returned
  /\ [][(pc = "poll" /\ pc' # "poll") => handle = "done"]_vars

C11_Witness == Returned /\ handle = "done" /\ inflight = 0 /\ launch.n_alns = 1

\* the slot of the current call is filled: from the fill to the next call
SlotFilled == pc \in {"submit", "poll", "extract"}

\* the (offset, length) recorded for a side whose sanitized bytes are x and
\* whose shared buffer is buf: the offset is 0, the first free offset after
\* the reset, the length is the number of bases of x, and the bytes of x
\* lie in buf from the recorded offset
RecordedAtStart(off, len, buf, x) ==
  /\ off = 0
  /\ len = Len(x)
  /\ Len(buf) >= off + len
  /\ ReadAt(buf, off, len) = x

\* C12: for the slot filled by align, the recorded offset of each side is
\* the position its bytes were copied to (0 after the reset, not the
\* position after the bytes) and the recorded length is the sanitized
\* sequence's length.
C12_RecordedOffsetLength ==
  SlotFilled =>
    /\ RecordedAtStart(stor.host_query_batch_offsets[1],
                       stor.host_query_batch_lens[1],
                       stor.host_unpacked_query_batch, q)
    /\ RecordedAtStart(stor.host_target_batch_offsets[1],
                       stor.host_target_batch_lens[1],
                       stor.host_unpacked_target_batch, s)

\* C13: every call on an aligner is scored with the scores given to that
\* aligner's constructor, whatever other aligners were constructed: the
\* results of a returned call are the engine's results for the slot under
\* subst_.
C13_ScoredAsConstructed ==
  Returned => stor.host_res = EngineRun(stor, subst_).host_res

\* allocations and releases of one aligner, in the order C14 gives
LifeOrder ==
  <<"new Parameters", "gasal_init_gpu_storage_v", "gasal_init_streams",
    "gasal_destroy_streams", "gasal_destroy_gpu_storage_v", "delete args_">>

InAlign == pc \in {"reset", "fill", "submit", "poll", "extract"}

\* C14: the parameters object, the storage vector and the streams are
\* allocated once each by the constructor and released once each by the
\* destructor, streams first, then the storage vector, then the parameters;
\* nothing is used when it is not live, and align runs only with all three
\* live.
C14_Lifecycle ==
  /\ Len(life.log) <= Len(LifeOrder)
  /\ life.log = SubSeq(LifeOrder, 1, Len(life.log))
  /\ ~life.misuse
  /\ pc = "idle" => Len(life.log) = 3
  /\ pc = "dead" => life.log = LifeOrder
  /\ InAlign => /\ life.args = "live"
                /\ life.storage = "live"
                /\ life.streams = "live"
                /\ stor # NoStorage

C14_Witness == pc = "dead" /\ ret.kind = "PAlign" /\ life.args = "released"

\* C15: the narrowing of the sizes (to int in the guard, to uint32 for the
\* fill and the recorded lengths) loses nothing: past the guard neither
\* sanitized sequence is longer than its maximum, and the lengths recorded
\* for the slot are the sequences' lengths.
C15_ExactLengths ==
  /\ InAlign => Len(q) <= max_q_ /\ Len(s) <= max_t_
  /\ SlotFilled => /\ stor.host_query_batch_lens[1] = Len(q)
                   /\ stor.host_target_batch_lens[1] = Len(s)

====
